---------------------------- MODULE Spec2Model ----------------------------
(***************************************************************************)
(* The VoiceRecorder component (src/VoiceRecorder.tsx): the recording      *)
(* session life cycle (start click, microphone grant, the 1 s timer, the   *)
(* 200 ms sampling interval, stop click, the asynchronous onstop handler)  *)
(* and the emotion classifier that runs inside the sampling interval.      *)
(*                                                                         *)
(* Numbers.  The code computes in IEEE doubles; the model computes the     *)
(* same expressions exactly, in integers:                                  *)
(*   pitch     is kept as  pitch * 2 * bufferLength   (= maxIndex * rate), *)
(*   volume    is kept in thousandths (time-domain samples are integers    *)
(*             in thousandths of the normalized range [-1, 1]),            *)
(*   variance  is kept as  variance * bufferLength^2,                      *)
(*   a normalized score x in [0,1] is kept as x * Unit(n), n the number of *)
(*             samples averaged, a boosted sub-term as 10 * x * Unit(n),   *)
(*             and a composite score as 200 * x * Unit(n).                 *)
(* With these factors every quantity of lines 72-106 is an integer.  The   *)
(* two agree except where a comparison of lines 90-106 is an equality in   *)
(* exact arithmetic: there a double may round to either side.              *)
(***************************************************************************)
EXTENDS Integers, Sequences, FiniteSets

(* ------------------------------ bounds ------------------------------- *)

\* frequencyBinCount of the analyser, scaled down (the code's is fftSize/2).
NumBins == 4
\* start clicks in a behaviour of Spec
MaxSessions == 2
\* frames ingested per window in Spec
MaxTicks == 10
\* frames ingested per window in SpecLong
MaxTicksLong == 102
\* cap of the recordingTime counter
MaxTime == 1
\* latest frame at which a session's signal changes its kind
MaxSwitchAt == 2
\* frames ingested per window in SpecScan
MaxRawTicks == 1
\* frames ingested per window in SpecSave
MaxSaveTicks == 1

(* ------------------------- program constants ------------------------- *)

SampleRate == 44100
MinSamples == 10
WindowCap == 100

(* --------------------------- analyser input -------------------------- *)

\* The sounds a tick can find at the analyser.
Kinds == {"silent", "high", "low", "pair", "even"}

\* getByteFrequencyData: one byte per bin.
Spectrum(kind) ==
  [i \in 1..NumBins |->
     CASE kind = "silent" -> 0
       [] kind = "high"   -> IF i = NumBins THEN 255 ELSE 0
       [] kind = "low"    -> 40
       [] kind = "pair"   -> IF i <= 2 THEN 80 ELSE 0
       [] kind = "even"   -> IF i = 1 THEN 48 ELSE IF i = 2 THEN 40
                             ELSE IF i = 3 THEN 8 ELSE 0]

\* getFloatTimeDomainData, in thousandths: a square wave of the kind's amplitude.
Amplitude(kind) ==
  CASE kind = "silent" -> 0
    [] kind = "high"   -> 1000
    [] kind = "low"    -> 20
    [] kind = "pair"   -> 1000
    [] kind = "even"   -> 105

TimeDomain(kind) ==
  [i \in 1..NumBins |-> IF i % 2 = 1 THEN Amplitude(kind) ELSE 0 - Amplitude(kind)]

(* ------------------------- feature extraction ------------------------ *)

RECURSIVE SumSeq(_)
SumSeq(s) == IF s = <<>> THEN 0 ELSE Head(s) + SumSeq(Tail(s))

Squares(s) == [i \in 1..Len(s) |-> s[i] * s[i]]

\* Math.sqrt on a value whose root is a whole number of thousandths.
Sqrt(q) == CHOOSE r \in 0..1000 : r * r <= q /\ q < (r + 1) * (r + 1)

\* lines 42-47
Volume(timeDomainArray) ==
  Sqrt(SumSeq(Squares(timeDomainArray)) \div Len(timeDomainArray))

\* a scan in which a later bin of equal value replaces the earlier one
RECURSIVE MaxScanLast(_, _, _, _)
MaxScanLast(dataArray, i, maxValue, maxIndex) ==
  IF i > Len(dataArray) THEN maxIndex
  ELSE IF dataArray[i] >= maxValue
       THEN MaxScanLast(dataArray, i + 1, dataArray[i], i - 1)
       ELSE MaxScanLast(dataArray, i + 1, maxValue, maxIndex)

\* lines 50-57: the scan keeps the first bin that holds the largest value;
\* maxIndex is 0-based.
RECURSIVE MaxScan(_, _, _, _)
MaxScan(dataArray, i, maxValue, maxIndex) ==
  IF i > Len(dataArray) THEN maxIndex
  ELSE IF dataArray[i] > maxValue
       THEN MaxScan(dataArray, i + 1, dataArray[i], i - 1)
       ELSE MaxScan(dataArray, i + 1, maxValue, maxIndex)

\* a scan that starts with no bin chosen
MaxIndexNone(dataArray) == MaxScan(dataArray, 1, 0, -1)

MaxIndex(dataArray) == MaxScan(dataArray, 1, 0, 0)

\* line 58, times 2 * bufferLength
Pitch(dataArray) == MaxIndex(dataArray) * SampleRate

\* lines 61-62, times bufferLength^2:
\* sum((v - sum/N)^2) / N  =  (N * sum(v^2) - sum^2) / N^2
Variance(dataArray) ==
  Len(dataArray) * SumSeq(Squares(dataArray)) - SumSeq(dataArray) * SumSeq(dataArray)

\* the sample of line 65 for each kind of sound
Features ==
  [k \in Kinds |-> [pitch    |-> Pitch(Spectrum(k)),
                    volume   |-> Volume(TimeDomain(k)),
                    variance |-> Variance(Spectrum(k))]]

(* ---------------------------- classification ------------------------- *)

Clamp(x, lo, hi) == IF x < lo THEN lo ELSE IF x > hi THEN hi ELSE x

\* the value that stands for 1.0 when n samples are averaged
Unit(n) == 2400 * NumBins * NumBins * n

SumOf(samples, field) == SumSeq([i \in 1..Len(samples) |-> samples[i][field]])

\* pitchScore without the Math.max(., 0) floor
pitchScoreNoFloor(samples) ==
  LET n == Len(samples)
      x == (SumOf(samples, "pitch") - 300 * NumBins * n) * 6 * NumBins
  IN  IF x > Unit(n) THEN Unit(n) ELSE x

\* lines 72, 84
pitchScore(samples) ==
  LET n == Len(samples)
  IN  Clamp((SumOf(samples, "pitch") - 300 * NumBins * n) * 6 * NumBins, 0, Unit(n))

\* lines 73, 85
volumeScore(samples) ==
  LET n == Len(samples)
  IN  Clamp(SumOf(samples, "volume") * 16 * NumBins * NumBins, 0, Unit(n))

\* lines 74, 86
varianceScore(samples) ==
  LET n == Len(samples)
  IN  Clamp(SumOf(samples, "variance") * 3, 0, Unit(n))

\* lines 89-93
happyScore(samples) ==
  LET u == Unit(Len(samples))
      p == pitchScore(samples)
      v == volumeScore(samples)
      r == varianceScore(samples)
  IN  (IF 2 * p > u THEN 10 * u ELSE 20 * p) * 7
    + (IF 10 * v > 6 * u THEN 10 * u ELSE 10 * v) * 7
    + (IF 10 * r > 4 * u THEN 10 * u ELSE 15 * r) * 6

\* sadScore whose boosted sub-terms never saturate at 1
sadScoreNoKnee(samples) ==
  LET u == Unit(Len(samples))
      p == pitchScore(samples)
      v == volumeScore(samples)
      r == varianceScore(samples)
  IN  15 * (u - p) * 7 + 12 * (u - v) * 8 + 13 * (u - r) * 5

\* lines 95-99
sadScore(samples) ==
  LET u == Unit(Len(samples))
      p == pitchScore(samples)
      v == volumeScore(samples)
      r == varianceScore(samples)
  IN  (IF 10 * p < 4 * u THEN 10 * u ELSE 15 * (u - p)) * 7
    + (IF 2 * v < u THEN 10 * u ELSE 12 * (u - v)) * 8
    + (IF 100 * r < 35 * u THEN 10 * u ELSE 13 * (u - r)) * 5

Abs(x) == IF x < 0 THEN 0 - x ELSE x

\* Decide with >= in the mixed-signals comparison of line 108
DecideTieHappy(h, s, u) ==
  IF h > 90 * u /\ h > s + 20 * u THEN "happy"
  ELSE IF s > 90 * u /\ s > h + 20 * u THEN "sad"
  ELSE IF Abs(h - s) < 20 * u /\ (h > 60 * u \/ s > 60 * u)
       THEN (IF h >= s THEN "happy" ELSE "sad")
  ELSE "neutral"

\* Decide with the two scores exchanged in the margin test of line 102
DecideSwapped(h, s, u) ==
  IF h > 90 * u /\ s > h + 20 * u THEN "happy"
  ELSE IF s > 90 * u /\ s > h + 20 * u THEN "sad"
  ELSE IF Abs(h - s) < 20 * u /\ (h > 60 * u \/ s > 60 * u)
       THEN (IF h > s THEN "happy" ELSE "sad")
  ELSE "neutral"

\* Decide without the branch of lines 104-105
DecideNoSad(h, s, u) ==
  IF h > 90 * u /\ h > s + 20 * u THEN "happy"
  ELSE IF Abs(h - s) < 20 * u /\ (h > 60 * u \/ s > 60 * u)
       THEN (IF h > s THEN "happy" ELSE "sad")
  ELSE "neutral"

\* lines 101-112, on composite scores h and s with 1.0 = 200 * u
Decide(h, s, u) ==
  IF h > 90 * u /\ h > s + 20 * u THEN "happy"
  ELSE IF s > 90 * u /\ s > h + 20 * u THEN "sad"
  ELSE IF Abs(h - s) < 20 * u /\ (h > 60 * u \/ s > 60 * u)
       THEN (IF h > s THEN "happy" ELSE "sad")
  ELSE "neutral"

(* -------------------------------- state ------------------------------ *)

Ids == 1..MaxSessions
Labels == {"happy", "neutral", "sad"}
Unset == "unset"
Idle == 0
\* the values Math.random gives the waveform bars (line 124)
WaveLevels == {1, 2}

\* what a session's microphone hears: frames up to number `at` are of kind
\* `first`, later ones of kind `then`
SustainedSignals == {[first |-> k, then |-> k, at |-> 0] : k \in Kinds}
SwitchSignals ==
  {sig \in [first : Kinds, then : Kinds, at : 1..MaxSwitchAt] : sig.first # sig.then}
NoSignal == [first |-> "silent", then |-> "silent", at |-> 0]

KindAt(sig, k) == IF k <= sig.at THEN sig.first ELSE sig.then

VARIABLES
  user,              \* useAuth().user is present
  isRecording,       \* line 17
  recordingTime,     \* line 18
  detectedEmotion,   \* line 19, Unset for null
  waveformData,      \* line 20, Idle for Array(20).fill(0.3)
  mediaRecorderRef,  \* line 22: id of the recorder, 0 for null
  timerRef,          \* line 24: id of an interval, 0 for null
  waveformRef,       \* line 25
  audioContextRef,   \* line 26
  analyserRef,       \* line 27
  emotionSamplesRef, \* line 28
  sessions,          \* per start click: the call of startRecording and its recorder
  timers,            \* the 1 s intervals that are set and not cleared
  samplers,          \* the 200 ms intervals that are set and not cleared
  closedContexts,    \* audio contexts on which close() was called
  stoppedStreams,    \* streams whose tracks were stopped
  rows,              \* rows of the voice_notes table
  created,           \* the notes handed to onNoteCreated, newest first
  toasts,            \* the sessions an error toast was shown for
  clicks,            \* start clicks so far
  ingested,          \* frames pushed since the window was last emptied
  scored             \* what the latest classification computed

vars == <<user, isRecording, recordingTime, detectedEmotion, waveformData,
          mediaRecorderRef, timerRef, waveformRef, audioContextRef, analyserRef,
          emotionSamplesRef, sessions, timers, samplers, closedContexts,
          stoppedStreams, rows, created, toasts, clicks, ingested, scored>>

refs == <<mediaRecorderRef, timerRef, waveformRef, audioContextRef, analyserRef>>
intervals == <<timers, samplers>>
outputs == <<rows, created, toasts>>

NoSession ==
  [phase |-> "none", emotion |-> Unset, time |-> 0, signal |-> NoSignal,
   onstop |-> "none", labelAtStop |-> Unset, timeAtStop |-> 0, secs |-> 0]

NotScored == [n |-> 0, happy |-> 0, sad |-> 0, label |-> Unset]

Init ==
  /\ user \in BOOLEAN
  /\ isRecording = FALSE
  /\ recordingTime = 0
  /\ detectedEmotion = Unset
  /\ waveformData = Idle
  /\ mediaRecorderRef = 0
  /\ timerRef = 0
  /\ waveformRef = 0
  /\ audioContextRef = 0
  /\ analyserRef = 0
  /\ emotionSamplesRef = <<>>
  /\ sessions = [s \in Ids |-> NoSession]
  /\ timers = {}
  /\ samplers = {}
  /\ closedContexts = {}
  /\ stoppedStreams = {}
  /\ rows = <<>>
  /\ created = <<>>
  /\ toasts = {}
  /\ clicks = 0
  /\ ingested = 0
  /\ scored = NotScored

(* ------------------------------ recording ---------------------------- *)

\* line 274 with isRecording false: startRecording is called and waits for
\* getUserMedia (line 130).  The call is the one of the latest render, so the
\* onstop handler it will install (lines 148-219) reads that render's
\* detectedEmotion and recordingTime.
ClickStart(maxSessions) ==
  /\ ~isRecording
  /\ clicks < maxSessions
  /\ clicks' = clicks + 1
  /\ sessions' = [sessions EXCEPT ![clicks + 1] =
                    [NoSession EXCEPT !.phase = "asking",
                                      !.emotion = detectedEmotion,
                                      !.time = recordingTime]]
  /\ UNCHANGED <<user, isRecording, recordingTime, detectedEmotion, waveformData,
                 refs, emotionSamplesRef, intervals, closedContexts,
                 stoppedStreams, outputs, ingested, scored>>

\* line 130 rejects: lines 234-236
UserMediaDenied(s) ==
  /\ sessions[s].phase = "asking"
  /\ sessions' = [sessions EXCEPT ![s].phase = "denied"]
  /\ UNCHANGED <<user, isRecording, recordingTime, detectedEmotion, waveformData,
                 refs, emotionSamplesRef, intervals, closedContexts,
                 stoppedStreams, outputs, clicks, ingested, scored>>

\* line 130 resolves: lines 131-233
UserMediaGranted(s, sig) ==
  /\ sessions[s].phase = "asking"
  /\ sessions' = [sessions EXCEPT ![s].phase = "recording", ![s].signal = sig]
  /\ audioContextRef' = s
  /\ analyserRef' = s
  /\ mediaRecorderRef' = s
  /\ emotionSamplesRef' = <<>>
  /\ ingested' = 0
  /\ isRecording' = TRUE
  /\ timerRef' = s
  /\ timers' = timers \cup {s}
  /\ waveformRef' = s
  /\ samplers' = samplers \cup {s}
  /\ UNCHANGED <<user, recordingTime, detectedEmotion, waveformData,
                 closedContexts, stoppedStreams, outputs, clicks, scored>>

\* lines 225-227: one firing of a 1 s interval
TimerTick(t) ==
  /\ t \in timers
  /\ recordingTime < MaxTime
  /\ recordingTime' = recordingTime + 1
  /\ sessions' = [sessions EXCEPT ![t].secs =
                    IF sessions[t].phase = "recording" THEN @ + 1 ELSE @]
  /\ UNCHANGED <<user, isRecording, detectedEmotion, waveformData, refs,
                 emotionSamplesRef, intervals, closedContexts, stoppedStreams,
                 outputs, clicks, ingested, scored>>

(* ---------------------------- the sampling tick ---------------------- *)

\* Push that mixes the waveform bars into the sample
PushWave(samples, frame) ==
  Append(samples, [frame EXCEPT !.volume = @ + waveformData])

\* line 65
Push(samples, frame) == Append(samples, frame)

\* Eligible without the minimum of 10 samples
EligibleAny(samples) == Len(samples) >= 1

\* line 68
Eligible(samples) == Len(samples) >= MinSamples

\* lines 69-112
Classify(samples) ==
  LET h == happyScore(samples)
      s == sadScore(samples)
  IN  [n |-> Len(samples), happy |-> h, sad |-> s,
       label |-> Decide(h, s, Unit(Len(samples)))]

\* Trim with slice(0, 100): keeps the oldest frames
TrimHead(samples) ==
  IF Len(samples) > WindowCap THEN SubSeq(samples, 1, WindowCap) ELSE samples

\* lines 115-117: slice(-100)
Trim(samples) ==
  IF Len(samples) > WindowCap
  THEN SubSeq(samples, Len(samples) - WindowCap + 1, Len(samples))
  ELSE samples

\* lines 230-233: one firing of a 200 ms interval: updateWaveform, then
\* analyzeAudioEmotion (lines 31-119)
SamplingTick(t, wave, maxTicks) ==
  /\ t \in samplers
  /\ waveformData' = wave
  /\ IF analyserRef = 0
     THEN UNCHANGED <<emotionSamplesRef, ingested, detectedEmotion, scored>>
     ELSE /\ ingested < maxTicks
          /\ LET kind    == KindAt(sessions[analyserRef].signal, ingested + 1)
                 frame   == [seq      |-> ingested + 1,
                             session  |-> analyserRef,
                             pitch    |-> Features[kind].pitch,
                             volume   |-> Features[kind].volume,
                             variance |-> Features[kind].variance]
                 samples == Push(emotionSamplesRef, frame)
             IN  /\ ingested' = ingested + 1
                 /\ IF Eligible(samples)
                    THEN /\ scored' = Classify(samples)
                         /\ detectedEmotion' = scored'.label
                         /\ emotionSamplesRef' = Trim(samples)
                    ELSE /\ emotionSamplesRef' = samples
                         /\ UNCHANGED <<detectedEmotion, scored>>
  /\ UNCHANGED <<user, isRecording, recordingTime, refs, sessions, intervals,
                 closedContexts, stoppedStreams, outputs, clicks>>

\* byte values a bin of getByteFrequencyData (line 39) may hold
RawLevels == {0, 80, 255}
\* the spectra the analyser may hand to a tick
RawSpectra == [1..NumBins -> RawLevels]

\* lines 230-233 again, for a tick that finds an arbitrary spectrum at the
\* analyser; the frame remembers the spectrum it was taken from
RawTick(t, wave, dataArray) ==
  /\ t \in samplers
  /\ waveformData' = wave
  /\ IF analyserRef = 0
     THEN UNCHANGED <<emotionSamplesRef, ingested, detectedEmotion, scored>>
     ELSE /\ ingested < MaxRawTicks
          /\ LET kind    == KindAt(sessions[analyserRef].signal, ingested + 1)
                 frame   == [seq      |-> ingested + 1,
                             session  |-> analyserRef,
                             data     |-> dataArray,
                             pitch    |-> Pitch(dataArray),
                             volume   |-> Features[kind].volume,
                             variance |-> Variance(dataArray)]
                 samples == Push(emotionSamplesRef, frame)
             IN  /\ ingested' = ingested + 1
                 /\ IF Eligible(samples)
                    THEN /\ scored' = Classify(samples)
                         /\ detectedEmotion' = scored'.label
                         /\ emotionSamplesRef' = Trim(samples)
                    ELSE /\ emotionSamplesRef' = samples
                         /\ UNCHANGED <<detectedEmotion, scored>>
  /\ UNCHANGED <<user, isRecording, recordingTime, refs, sessions, intervals,
                 closedContexts, stoppedStreams, outputs, clicks>>

\* line 274 with isRecording true: stopRecording (lines 239-251)
ClickStop ==
  /\ isRecording
  /\ mediaRecorderRef # 0
  /\ sessions[mediaRecorderRef].phase = "recording"
  /\ sessions' = [sessions EXCEPT ![mediaRecorderRef].phase = "inactive",
                                  ![mediaRecorderRef].onstop = "queued",
                                  ![mediaRecorderRef].labelAtStop = detectedEmotion,
                                  ![mediaRecorderRef].timeAtStop = recordingTime]
  /\ isRecording' = FALSE
  /\ timers' = timers \ {timerRef}
  /\ samplers' = samplers \ {waveformRef}
  /\ UNCHANGED <<user, recordingTime, detectedEmotion, waveformData, refs,
                 emotionSamplesRef, closedContexts, stoppedStreams, outputs,
                 clicks, ingested, scored>>

(* ------------------------------- onstop ------------------------------ *)

\* line 150
finalEmotion(s) ==
  IF sessions[s].emotion = Unset THEN "neutral" ELSE sessions[s].emotion

\* lines 178-184 and 190-198
Note(s) == [session |-> s, emotion |-> finalEmotion(s), duration |-> sessions[s].time]

\* lines 209-218
Cleanup(s) ==
  /\ stoppedStreams' = stoppedStreams \cup {s}
  /\ closedContexts' = IF audioContextRef # 0
                       THEN closedContexts \cup {audioContextRef}
                       ELSE closedContexts
  /\ audioContextRef' = 0
  /\ analyserRef' = 0
  /\ recordingTime' = 0
  /\ detectedEmotion' = Unset
  /\ waveformData' = Idle

\* the stop event: lines 149-166, up to the wait for the upload
OnStop(s) ==
  /\ sessions[s].onstop = "queued"
  /\ IF ~user
     THEN /\ toasts' = toasts \cup {s}
          /\ sessions' = [sessions EXCEPT ![s].onstop = "done"]
     ELSE /\ sessions' = [sessions EXCEPT ![s].onstop = "upload"]
          /\ UNCHANGED toasts
  /\ UNCHANGED <<user, isRecording, recordingTime, detectedEmotion, waveformData,
                 refs, emotionSamplesRef, intervals, closedContexts,
                 stoppedStreams, rows, created, clicks, ingested, scored>>

\* the upload settles: line 168, then lines 171-173 or lines 201-218
UploadDone(s, ok) ==
  /\ sessions[s].onstop = "upload"
  /\ IF ok
     THEN /\ sessions' = [sessions EXCEPT ![s].onstop = "sign"]
          /\ UNCHANGED <<toasts, recordingTime, detectedEmotion, waveformData,
                         audioContextRef, analyserRef, closedContexts,
                         stoppedStreams>>
     ELSE /\ sessions' = [sessions EXCEPT ![s].onstop = "done"]
          /\ toasts' = toasts \cup {s}
          /\ Cleanup(s)
  /\ UNCHANGED <<user, isRecording, mediaRecorderRef, timerRef, waveformRef,
                 emotionSamplesRef, intervals, rows, created, clicks, ingested,
                 scored>>

\* the signed URL arrives: lines 171-186, up to the wait for the insert
SignedUrlDone(s) ==
  /\ sessions[s].onstop = "sign"
  /\ sessions' = [sessions EXCEPT ![s].onstop = "insert"]
  /\ UNCHANGED <<user, isRecording, recordingTime, detectedEmotion, waveformData,
                 refs, emotionSamplesRef, intervals, closedContexts,
                 stoppedStreams, outputs, clicks, ingested, scored>>

\* an insert that reports the note whether or not the row was written
InsertDoneReportsAlways(s, ok) ==
  /\ sessions[s].onstop = "insert"
  /\ sessions' = [sessions EXCEPT ![s].onstop = "done"]
  /\ created' = <<Note(s)>> \o created
  /\ IF ok
     THEN /\ rows' = Append(rows, Note(s))
          /\ UNCHANGED toasts
     ELSE /\ toasts' = toasts \cup {s}
          /\ UNCHANGED rows
  /\ Cleanup(s)
  /\ UNCHANGED <<user, isRecording, mediaRecorderRef, timerRef, waveformRef,
                 emotionSamplesRef, intervals, clicks, ingested, scored>>

\* the insert settles: line 188, then lines 190-200 or 201-207, then 209-218
InsertDone(s, ok) ==
  /\ sessions[s].onstop = "insert"
  /\ sessions' = [sessions EXCEPT ![s].onstop = "done"]
  /\ IF ok
     THEN /\ rows' = Append(rows, Note(s))
          /\ created' = <<Note(s)>> \o created
          /\ UNCHANGED toasts
     ELSE /\ toasts' = toasts \cup {s}
          /\ UNCHANGED <<rows, created>>
  /\ Cleanup(s)
  /\ UNCHANGED <<user, isRecording, mediaRecorderRef, timerRef, waveformRef,
                 emotionSamplesRef, intervals, clicks, ingested, scored>>

(* --------------------------- specifications -------------------------- *)

\* the component's life cycle, each session hearing one kind of sound
Next ==
  \/ ClickStart(MaxSessions)
  \/ \E s \in Ids : UserMediaDenied(s)
  \/ \E s \in Ids, sig \in SustainedSignals : UserMediaGranted(s, sig)
  \/ \E t \in Ids : TimerTick(t)
  \/ \E t \in Ids, wave \in WaveLevels : SamplingTick(t, wave, MaxTicks)
  \/ ClickStop
  \/ \E s \in Ids : OnStop(s)
  \/ \E s \in Ids, ok \in BOOLEAN : UploadDone(s, ok)
  \/ \E s \in Ids : SignedUrlDone(s)
  \/ \E s \in Ids, ok \in BOOLEAN : InsertDone(s, ok)

Spec == Init /\ [][Next]_vars

\* one long session whose sound may change once
NextLong ==
  \/ ClickStart(1)
  \/ \E s \in Ids, sig \in SustainedSignals \cup SwitchSignals : UserMediaGranted(s, sig)
  \/ \E t \in Ids : TimerTick(t)
  \/ \E t \in Ids, wave \in WaveLevels : SamplingTick(t, wave, MaxTicksLong)
  \/ ClickStop
  \/ \E s \in Ids : OnStop(s)

SpecLong == Init /\ [][NextLong]_vars

\* the time-domain side of the sessions of SpecScan: silence or a loud sound
ScanSignals == {sig \in SustainedSignals : sig.first \in {"silent", "high"}}

\* one session whose ticks find arbitrary spectra at the analyser
NextScan ==
  \/ ClickStart(1)
  \/ \E s \in Ids, sig \in ScanSignals : UserMediaGranted(s, sig)
  \/ \E t \in Ids, wave \in WaveLevels, dataArray \in RawSpectra :
        RawTick(t, wave, dataArray)

SpecScan == Init /\ [][NextScan]_vars

\* the sound of the sessions of SpecSave, which end below the minimum window
SaveSignals == {sig \in SustainedSignals : sig.first = "high"}

\* short sessions, each followed to the end of its onstop handler
NextSave ==
  \/ ClickStart(MaxSessions)
  \/ \E s \in Ids : UserMediaDenied(s)
  \/ \E s \in Ids, sig \in SaveSignals : UserMediaGranted(s, sig)
  \/ \E t \in Ids : TimerTick(t)
  \/ \E t \in Ids, wave \in WaveLevels : SamplingTick(t, wave, MaxSaveTicks)
  \/ ClickStop
  \/ \E s \in Ids : OnStop(s)
  \/ \E s \in Ids, ok \in BOOLEAN : UploadDone(s, ok)
  \/ \E s \in Ids : SignedUrlDone(s)
  \/ \E s \in Ids, ok \in BOOLEAN : InsertDone(s, ok)

SpecSave == Init /\ [][NextSave]_vars

(* ------------------------------- claims ------------------------------ *)

\* the session whose analyser the sampling ticks read
Window == emotionSamplesRef
FramesAre(kind) ==
  \A i \in 1..Len(Window) :
     /\ Window[i].pitch = Features[kind].pitch
     /\ Window[i].volume = Features[kind].volume
     /\ Window[i].variance = Features[kind].variance
Hears(kind) ==
  /\ analyserRef # 0
  /\ sessions[analyserRef].signal = [first |-> kind, then |-> kind, at |-> 0]
LabelAtStop(s) ==
  IF sessions[s].labelAtStop = Unset THEN "neutral" ELSE sessions[s].labelAtStop

\* C1: every persisted note (and every note handed to onNoteCreated) carries
\* the label that was current when its session was stopped, and "neutral" only
\* if the label was unset then.
C1_NoteEmotionIsLastLabel ==
  /\ \A i \in 1..Len(rows) : rows[i].emotion = LabelAtStop(rows[i].session)
  /\ \A i \in 1..Len(created) : created[i].emotion = LabelAtStop(created[i].session)

\* C2: every persisted note's duration is the number of 1 s timer ticks that
\* fired during its session, which is the recordingTime shown at the stop.
C2_NoteDurationIsSeconds ==
  \A i \in 1..Len(rows) :
     /\ rows[i].duration = sessions[rows[i].session].secs
     /\ rows[i].duration = sessions[rows[i].session].timeAtStop

\* C3: the window never holds more than 100 frames, neither between two
\* events nor where a sampling tick computes the averages.
C3_WindowNeverAboveCap ==
  /\ Len(emotionSamplesRef) <= WindowCap
  /\ scored.n <= WindowCap

\* C4: once more than 100 frames were ingested the window holds exactly the
\* 100 most recent frames, oldest first.
C4_WindowIsLatestHundred ==
  ingested > WindowCap =>
    /\ Len(emotionSamplesRef) = WindowCap
    /\ \A i \in 1..WindowCap : emotionSamplesRef[i].seq = ingested - WindowCap + i

C4_Witness ==
  /\ ingested = WindowCap + 2
  /\ Len(emotionSamplesRef) = WindowCap
  /\ emotionSamplesRef[1].seq = 3

\* C5: in the first session of a freshly mounted recorder the label is unset
\* while fewer than 10 frames have been ingested, whatever the frames hold.
C5_UnsetBelowMinimum ==
  (clicks <= 1 /\ ingested < MinSamples) => detectedEmotion = Unset

C5_Witness ==
  /\ clicks = 1
  /\ ingested = MinSamples - 1
  /\ Len(emotionSamplesRef) = MinSamples - 1
  /\ FramesAre("high")
  /\ detectedEmotion = Unset

\* C6: the label of every classification follows the four rules in their
\* order of priority; an exact tie of the two scores within rule three gives
\* sad.  (0.45, 0.1 and 0.3 on the scale of the composite scores.)
C6_DecisionPolicy ==
  LET u  == Unit(scored.n)
      h  == scored.happy
      s  == scored.sad
      r1 == h > 90 * u /\ h > s + 20 * u
      r2 == s > 90 * u /\ s > h + 20 * u
      r3 == Abs(h - s) < 20 * u /\ (h > 60 * u \/ s > 60 * u)
  IN  scored.n >= MinSamples =>
        /\ r1 => scored.label = "happy"
        /\ (~r1 /\ r2) => scored.label = "sad"
        /\ (~r1 /\ ~r2 /\ r3 /\ h > s) => scored.label = "happy"
        /\ (~r1 /\ ~r2 /\ r3 /\ h <= s) => scored.label = "sad"
        /\ (~r1 /\ ~r2 /\ ~r3) => scored.label = "neutral"

C6_Witness ==
  /\ scored.n >= MinSamples
  /\ scored.happy = scored.sad
  /\ scored.label = "sad"
  /\ detectedEmotion = "sad"

\* C7 as stated: a session of at least 10 frames that hears only silence has
\* the three normalized scores 0 and the label neutral.
C7_SilenceIsNeutral ==
  (Hears("silent") /\ Len(Window) >= MinSamples) =>
    /\ FramesAre("silent")
    /\ \A i \in 1..Len(Window) :
         Window[i].pitch = 0 /\ Window[i].volume = 0 /\ Window[i].variance = 0
    /\ pitchScore(Window) = 0 /\ volumeScore(Window) = 0 /\ varianceScore(Window) = 0
    /\ detectedEmotion = "neutral"

\* C7 as amended: a session of at least 10 frames that hears only silence has
\* the three normalized scores 0, happyScore 0 and sadScore 1, and the label
\* sad.
C7_SilenceIsSad ==
  (Hears("silent") /\ Len(Window) >= MinSamples) =>
    /\ FramesAre("silent")
    /\ \A i \in 1..Len(Window) :
         Window[i].pitch = 0 /\ Window[i].volume = 0 /\ Window[i].variance = 0
    /\ pitchScore(Window) = 0 /\ volumeScore(Window) = 0 /\ varianceScore(Window) = 0
    /\ scored.happy = 0 /\ scored.sad = 200 * Unit(scored.n)
    /\ detectedEmotion = "sad"

C7_Witness ==
  /\ Hears("silent")
  /\ Len(Window) = WindowCap
  /\ FramesAre("silent")
  /\ detectedEmotion = "sad"

\* C8: a session of at least 10 frames, each with its energy in the top bin,
\* an RMS of 1 and the variance of a single full bin, has the label happy.
C8_HighIsHappy ==
  (Hears("high") /\ Len(Window) >= MinSamples) =>
    /\ \A i \in 1..Len(Window) :
         /\ Window[i].pitch = (NumBins - 1) * SampleRate
         /\ Window[i].volume = 1000
         /\ Window[i].variance = 255 * 255 * (NumBins - 1)
    /\ detectedEmotion = "happy"

C8_Witness ==
  /\ Hears("high")
  /\ Len(Window) >= MinSamples
  /\ FramesAre("high")
  /\ scored.happy > scored.sad
  /\ detectedEmotion = "happy"

\* C9: a session of at least 10 frames, each with a flat spectrum (dominant
\* bin 0, variance 0) and an RMS of 0.02, has the label sad.
C9_LowIsSad ==
  (Hears("low") /\ Len(Window) >= MinSamples) =>
    /\ \A i \in 1..Len(Window) :
         /\ Window[i].pitch = 0
         /\ Window[i].volume = 20
         /\ Window[i].variance = 0
    /\ detectedEmotion = "sad"

C9_Witness ==
  /\ Hears("low")
  /\ Len(Window) >= MinSamples
  /\ FramesAre("low")
  /\ scored.sad > scored.happy
  /\ detectedEmotion = "sad"

\* C10: from the start of a recording session that was started after every
\* earlier one had ended, with a label established, until it has ingested 10
\* frames, the window holds frames of that session only and the label is
\* unset.
C10_StartResetsClassifier ==
  (/\ mediaRecorderRef # 0
   /\ sessions[mediaRecorderRef].phase = "recording"
   /\ sessions[mediaRecorderRef].emotion # Unset
   /\ \A s \in Ids \ {mediaRecorderRef} : sessions[s].phase \in {"none", "denied", "inactive"}
   /\ ingested < MinSamples) =>
    /\ \A i \in 1..Len(Window) : Window[i].session = mediaRecorderRef
    /\ detectedEmotion = Unset

\* the frame a session with signal sig ingests as its j-th
FrameOf(sig, s, j) ==
  [seq      |-> j,
   session  |-> s,
   pitch    |-> Features[KindAt(sig, j)].pitch,
   volume   |-> Features[KindAt(sig, j)].volume,
   variance |-> Features[KindAt(sig, j)].variance]
\* the frames number from..to of that session, oldest first
FramesOf(sig, s, from, to) == [i \in 1..(to - from + 1) |-> FrameOf(sig, s, from + i - 1)]

\* C11: the window and the label are a function of the frames ingested alone:
\* after k frames of a session the window and the label are the ones that
\* the k frames determine, whatever values the waveform animation drew, so
\* two sessions fed the same frames agree after every tick.
C11_Deterministic ==
  analyserRef # 0 =>
    LET sig == sessions[analyserRef].signal
        k   == ingested
        lo  == IF k > WindowCap THEN k - WindowCap + 1 ELSE 1
        avg == IF k > WindowCap THEN k - WindowCap ELSE 1
    IN  /\ emotionSamplesRef = FramesOf(sig, analyserRef, lo, k)
        /\ detectedEmotion =
             IF k < MinSamples THEN Unset
             ELSE Classify(FramesOf(sig, analyserRef, avg, k)).label

C11_Witness ==
  /\ analyserRef # 0
  /\ ingested = MinSamples + 1
  /\ waveformData = 2
  /\ sessions[analyserRef].signal.at = 1
  /\ detectedEmotion = "happy"

\* C12: ingesting a frame never fails.  While a sampling interval is active
\* and the analyser is set, the feature extraction of a tick (the ticks below
\* the minimum window run nothing else) can complete and append a frame
\* numbered after the tick; every frame appended carries natural-number
\* features; and a frame taken from an all-zero spectrum and an all-zero
\* time-domain signal has pitch 0, loudness 0 and variance 0.
C12_IngestNeverFails ==
  /\ (samplers # {} /\ analyserRef # 0 /\ ingested + 1 < MinSamples) =>
       ENABLED (\E t \in Ids, wave \in WaveLevels :
                  /\ SamplingTick(t, wave, MaxTicksLong)
                  /\ ingested' = ingested + 1
                  /\ Len(emotionSamplesRef') = ingested'
                  /\ emotionSamplesRef'[ingested'].seq = ingested')
  /\ \A i \in 1..Len(Window) :
       LET f == Window[i]
       IN  /\ f.pitch \in Nat /\ f.volume \in Nat /\ f.variance \in Nat
           /\ KindAt(sessions[f.session].signal, f.seq) = "silent" =>
                f.pitch = 0 /\ f.volume = 0 /\ f.variance = 0

C12_Witness ==
  /\ analyserRef # 0
  /\ ingested >= 2
  /\ Len(Window) = ingested
  /\ KindAt(sessions[analyserRef].signal, ingested) = "silent"
  /\ KindAt(sessions[analyserRef].signal, 1) # "silent"
  /\ Window[ingested].volume = 0

\* C13: while a session holds at least the minimum number of frames, the
\* label is the decision policy applied to the means of exactly the frames
\* that are in the window after the tick.
C13_LabelFromWindow ==
  (analyserRef # 0 /\ Len(Window) >= MinSamples) =>
     detectedEmotion = Classify(Window).label

\* C14: once the session that is recording has its label set by the tick
\* that brought the window to the minimum, no step taken while that session
\* keeps recording reverts the label to unset.
C14_LabelStaysSet ==
  [][(/\ mediaRecorderRef # 0
      /\ mediaRecorderRef' = mediaRecorderRef
      /\ sessions[mediaRecorderRef].phase = "recording"
      /\ sessions'[mediaRecorderRef].phase = "recording"
      /\ ingested >= MinSamples
      /\ detectedEmotion # Unset)
     => detectedEmotion' # Unset]_vars

\* C15: at most one sampling interval and at most one timer interval is
\* active at any time.
C15_SingleProducer ==
  /\ Cardinality(samplers) <= 1
  /\ Cardinality(timers) <= 1

\* C16: once stopRecording has run and no recording is in progress, every
\* interval that was started is cleared: no sampling interval and no timer
\* interval is left to fire.
C16_StopCancelsSampling ==
  (/\ ~isRecording
   /\ \E s \in Ids : sessions[s].phase = "inactive")
  => (samplers = {} /\ timers = {})

\* the lowest 0-based index at which the spectrum attains its maximum
LowestMaxIndex(dataArray) ==
  CHOOSE m \in 0..(Len(dataArray) - 1) :
    /\ \A j \in 1..Len(dataArray) : dataArray[j] <= dataArray[m + 1]
    /\ \A j \in 1..m : dataArray[j] < dataArray[m + 1]

\* C17: the pitch of a frame is maxIndex * sampleRate / (2N), maxIndex the
\* lowest index at which the spectrum attains its maximum (so the first of
\* several equal maxima, and 0 when every bin is zero).  The model keeps
\* pitch times 2N.
C17_PitchIsLowestMaximum ==
  \A i \in 1..Len(Window) :
     /\ Window[i].pitch = LowestMaxIndex(Window[i].data) * SampleRate
     /\ (\A j \in 1..NumBins : Window[i].data[j] = 0) => Window[i].pitch = 0

C17_Witness ==
  \E i \in 1..Len(Window) :
     /\ Window[i].data[1] < Window[i].data[2]
     /\ Window[i].data[2] = Window[i].data[3]
     /\ \A j \in 1..NumBins : Window[i].data[j] <= Window[i].data[2]
     /\ Window[i].pitch = SampleRate

\* C18: whenever a tick assigns the label neutral, both composite scores of
\* that tick are at most 0.45.
C18_NeutralOnlyWhenBothLow ==
  (scored.label = "neutral") =>
     /\ scored.happy <= 90 * Unit(scored.n)
     /\ scored.sad <= 90 * Unit(scored.n)

\* C19: at every eligible tick the three normalized feature scores of the
\* window lie in [0,1] and both composite scores of the tick lie in [0,1].
C19_ScoresWithinUnit ==
  /\ (analyserRef # 0 /\ Len(Window) >= MinSamples) =>
       LET u == Unit(Len(Window))
       IN  /\ pitchScore(Window) >= 0 /\ pitchScore(Window) <= u
           /\ volumeScore(Window) >= 0 /\ volumeScore(Window) <= u
           /\ varianceScore(Window) >= 0 /\ varianceScore(Window) <= u
  /\ scored.n >= MinSamples =>
       /\ scored.happy >= 0 /\ scored.happy <= 200 * Unit(scored.n)
       /\ scored.sad >= 0 /\ scored.sad <= 200 * Unit(scored.n)

C19_Witness ==
  /\ scored.n > MinSamples
  /\ scored.sad = 200 * Unit(scored.n)
  /\ scored.happy = 0
  /\ detectedEmotion = "sad"

\* C20: while a session is recording, the audio context and the analyser
\* in the refs are its own, and its audio context has not been closed: the
\* end-of-session handling of an earlier session leaves them alone.
C20_OnStopLeavesLaterSession ==
  (/\ isRecording
   /\ mediaRecorderRef # 0
   /\ sessions[mediaRecorderRef].phase = "recording")
  => /\ analyserRef = mediaRecorderRef
     /\ audioContextRef = mediaRecorderRef
     /\ mediaRecorderRef \notin closedContexts

\* C21: every way a session can end releases its resources: the step that
\* ends a session's onstop handler (note saved, upload or insert failed, no
\* user logged in) leaves the session's microphone tracks stopped, its audio
\* context closed, the audio context and analyser refs cleared, the
\* recording time 0, the label unset and the waveform idle.
C21_EveryEndReleases ==
  [][\A s \in Ids :
       (sessions[s].onstop # "done" /\ sessions'[s].onstop = "done") =>
          /\ s \in stoppedStreams'
          /\ s \in closedContexts'
          /\ audioContextRef' = 0
          /\ analyserRef' = 0
          /\ recordingTime' = 0
          /\ detectedEmotion' = Unset
          /\ waveformData' = Idle]_vars

\* the sessions whose note was handed to onNoteCreated
Reported == {created[i].session : i \in 1..Len(created)}

\* C22: a note is reported only after it was fully persisted.  No session is
\* reported twice; every reported note is the note of a stopped session
\* whose handler has ended and equals a row that the insert wrote; a session
\* that got the error toast (upload failed, insert failed, no user) is not
\* reported, so the notes list grows only together with the rows; and every
\* session whose handler has ended was either reported or got the toast.
C22_ReportedOnlyWhenPersisted ==
  /\ \A i, j \in 1..Len(created) : created[i].session = created[j].session => i = j
  /\ \A i \in 1..Len(created) :
        /\ sessions[created[i].session].phase = "inactive"
        /\ sessions[created[i].session].onstop = "done"
        /\ \E k \in 1..Len(rows) : rows[k] = created[i]
  /\ Len(created) = Len(rows)
  /\ Reported \cap toasts = {}
  /\ \A s \in Ids : sessions[s].onstop = "done" => s \in Reported \cup toasts
  /\ ~user => created = <<>>

C22_Witness ==
  \E s1, s2 \in Ids :
     /\ sessions[s1].onstop = "done" /\ s1 \in Reported
     /\ sessions[s2].onstop = "done" /\ s2 \in toasts
     /\ Len(created) = 1

=============================================================================
